---------------------------- MODULE Spec2Model ----------------------------
(***************************************************************************)
(* Model of the analytical pipeline of the smart-meter repository:         *)
(*   - src/src/anomaly.py       detect_anomalies (Z-score thresholding)    *)
(*   - src/src/data_utils.py    generate_consumption, load_consumption     *)
(*   - src/src/forecast.py      forecast_city, forecast_consumption        *)
(*   - src/src/recommend.py     generate_suggestions                       *)
(* Numbers are exact: a float of the program is an integer or a fraction   *)
(* [num, den] here; a fraction with den = 0 is the IEEE result of a        *)
(* division by zero (num # 0: infinity, num = 0: NaN).                     *)
(***************************************************************************)
EXTENDS Integers, Sequences, FiniteSets, TLC

VARIABLES
    \* anomaly.py
    consumption,        \* the frame handed to detect_anomalies (column -> series)
    detect_calls,       \* the last two calls of detect_anomalies on that frame, latest last:
                        \* [threshold2 (the threshold in halves, 4 is 2.0), anomalies (the mask)]
    \* data_utils.py
    CITIES,             \* line 20: the module's list of region names
    totals_csv,         \* the file _TOTALS_CSV: [exists, rows], a row is [city, numeric, mwh]
    CITY_TOTALS_KWH,    \* line 153: the memo [loaded, totals]; loaded = FALSE is None
    np_random,          \* the state of numpy's global random generator
    generate_calls,     \* the last two calls of generate_consumption, latest last: [hours, frame]
    \* data_utils.py:187-194, the scaling step on its own
    raw_in,             \* line 185: the raw series of one region
    totals_in,          \* line 177: the totals table (normalized name -> kWh)
    stored,             \* line 194: <<>> before the step, <<the stored series>> after
    \* data_utils.py:204-234, the cache file and the clock of the file system
    clock,              \* the time the file system stamps a written file with
    totals_csv_mtime,   \* _TOTALS_CSV.stat().st_mtime
    data_path,          \* the file _DATA_PATH: [exists, mtime, content]
    load_calls,         \* <<>> or <<the last call of load_consumption>>:
                        \* [force, hours, regenerated, data]
    \* forecast.py
    fc_input,           \* the series handed to the forecaster: [tz, ds, y]
    city_fit,           \* <<>> or <<the frame forecast_city handed to model.fit>>
    consumption_fit,    \* <<>> or <<the frame forecast_consumption handed to m.fit>>
    \* recommend.py
    forecast_df,        \* the table handed to generate_suggestions: [columns, rows], a row is [ds, yhat]
    outcome             \* the last call of generate_suggestions: [status, fault, suggestions] and
                        \* the values of its local variables when it returned

det_vars == <<consumption, detect_calls>>
gen_vars == <<CITIES, totals_csv, CITY_TOTALS_KWH, np_random, generate_calls>>
scale_vars == <<raw_in, totals_in, stored>>
rec_vars == <<forecast_df, outcome>>
load_vars == <<clock, totals_csv_mtime, data_path, load_calls>>
fc_vars == <<fc_input, city_fit, consumption_fit>>
vars == <<det_vars, gen_vars, scale_vars, rec_vars, load_vars, fc_vars>>

(***************************************************************************)
(* Bounds of the detector's inputs.                                        *)
(***************************************************************************)
MaxLen == 5
MaxThreshold2 == 5
SeriesValues == {0, 1, 10}
Columns == {"A"}
Thresholds2 == -1 .. MaxThreshold2

RECURSIVE SeqSum(_)
SeqSum(s) == IF s = <<>> THEN 0 ELSE Head(s) + SeqSum(Tail(s))

RECURSIVE SeqSumSq(_)
SeqSumSq(s) == IF s = <<>> THEN 0 ELSE Head(s) * Head(s) + SeqSumSq(Tail(s))

SeqsUpTo(S, n) == UNION {[1 .. k -> S] : k \in 0 .. n}

(***************************************************************************)
(* anomaly.py line 23: consumption.std() is pandas' sample standard        *)
(* deviation (ddof = 1).  With n = Len(s), S = sum, Q = sum of squares:    *)
(*     var = (n*Q - S*S) / (n*(n-1))                                       *)
(* StdVarNum is the numerator n*Q - S*S; the variance is undefined (NaN)   *)
(* for n < 2 and zero when the numerator is zero.                          *)
(***************************************************************************)
StdVarNum(s) == Len(s) * SeqSumSq(s) - SeqSum(s) * SeqSum(s)

StdIsNaN(s) == Len(s) < 2

(***************************************************************************)
(* anomaly.py lines 23-24 for one cell x of the column s, threshold k/2:   *)
(*     z = (x - mean) / std ;  abs(z) > threshold                          *)
(* z = (n*x - S) / n / sqrt(var).  If std is NaN or 0 the score is NaN     *)
(* (0/0; the deviation of every cell is then 0) and NaN > t is False.      *)
(* Otherwise abs(z) > k/2 is True for k < 0 and for k >= 0 is              *)
(*     4 * (n*x - S)^2 * (n-1)  >  k^2 * n * (n*Q - S*S).                  *)
(***************************************************************************)
AbsZExceedsFlipped(s, x, k) ==
    LET n == Len(s)
        d == n * x - SeqSum(s)
    IN  IF StdIsNaN(s) \/ StdVarNum(s) = 0 THEN FALSE
        ELSE k >= 0 /\ 4 * d * d * (n - 1) < k * k * n * StdVarNum(s)

AbsZExceedsNaNTrue(s, x, k) ==
    LET n == Len(s)
        d == n * x - SeqSum(s)
    IN  IF StdIsNaN(s) \/ StdVarNum(s) = 0 THEN TRUE
        ELSE IF k < 0 THEN TRUE
        ELSE 4 * d * d * (n - 1) > k * k * n * StdVarNum(s)

AbsZExceeds(s, x, k) ==
    LET n == Len(s)
        d == n * x - SeqSum(s)
    IN  IF StdIsNaN(s) \/ StdVarNum(s) = 0 THEN FALSE
        ELSE IF k < 0 THEN TRUE
        ELSE 4 * d * d * (n - 1) > k * k * n * StdVarNum(s)

(***************************************************************************)
(* anomaly.py lines 8-24: the mask has the frame's shape; every column is  *)
(* scored against its own mean and standard deviation.                     *)
(***************************************************************************)
detect_anomalies(frame, k) ==
    [c \in DOMAIN frame |->
        [i \in 1 .. Len(frame[c]) |-> AbsZExceeds(frame[c], frame[c][i], k)]]

DetInit ==
    /\ consumption \in [Columns -> SeqsUpTo(SeriesValues, MaxLen)]
    /\ detect_calls = <<>>

LastTwo(s) == IF Len(s) <= 2 THEN s ELSE Tail(s)

DetectAnomalies(k) ==
    /\ detect_calls' = LastTwo(Append(detect_calls,
            [threshold2 |-> k, anomalies |-> detect_anomalies(consumption, k)]))
    /\ UNCHANGED <<consumption, gen_vars, scale_vars, rec_vars, load_vars, fc_vars>>

CountTrue(m) == Cardinality({i \in DOMAIN m : m[i]})

IsConstant(s) == \A i, j \in 1 .. Len(s) : s[i] = s[j]

\* s is constant except for the one cell i
IsSpikeAt(s, i) ==
    /\ i \in 1 .. Len(s)
    /\ \A j, l \in (1 .. Len(s)) \ {i} : s[j] = s[l]
    /\ \E j \in (1 .. Len(s)) \ {i} : s[j] # s[i]

Called == Len(detect_calls) >= 1
threshold2 == detect_calls[Len(detect_calls)].threshold2
anomalies == detect_calls[Len(detect_calls)].anomalies
prev_call == detect_calls[1]

(***************************************************************************)
(* C1: detect_anomalies on [0,0,0,10,0] with threshold 2 returns a mask    *)
(* whose only true entry is the spike (index 3, counting from 0); more     *)
(* generally the one spike of an otherwise constant 5-point series is the  *)
(* only flagged point at threshold 2.  (tests/test_anomaly.py asserts it.) *)
(***************************************************************************)
C1_SpikeIsTheOnlyFlag ==
    (Called /\ threshold2 = 4) =>
        \A c \in Columns : \A i \in 1 .. 5 :
            (Len(consumption[c]) = 5 /\ IsSpikeAt(consumption[c], i)) =>
                anomalies[c] = [j \in 1 .. 5 |-> j = i]

\* the test's own frame: the code returns an all-false mask for it
C1_TestFrameFlagsNothing ==
    (Called /\ threshold2 = 4 /\ consumption["A"] = <<0, 0, 0, 10, 0>>) =>
        CountTrue(anomalies["A"]) = 0

(***************************************************************************)
(* C4 (as stated): for every series and thresholds t1 < t2, the call with  *)
(* t1 flags strictly more points than the call with t2.                    *)
(***************************************************************************)
TwoCalls == Len(detect_calls) = 2

C4_StrictlyMoreFlags ==
    TwoCalls =>
        \A c \in Columns :
            /\ prev_call.threshold2 < threshold2 =>
                   CountTrue(prev_call.anomalies[c]) > CountTrue(anomalies[c])
            /\ threshold2 < prev_call.threshold2 =>
                   CountTrue(anomalies[c]) > CountTrue(prev_call.anomalies[c])

(***************************************************************************)
(* C4 (amended): for every series and thresholds t1 < t2, every point      *)
(* flagged with t2 is also flagged with t1, so t1 flags at least as many   *)
(* points as t2.                                                           *)
(***************************************************************************)
C4_MonotoneFlags ==
    TwoCalls =>
        \A c \in Columns : \A i \in 1 .. Len(consumption[c]) :
            /\ prev_call.threshold2 < threshold2 =>
                   (anomalies[c][i] => prev_call.anomalies[c][i])
            /\ threshold2 < prev_call.threshold2 =>
                   (prev_call.anomalies[c][i] => anomalies[c][i])

\* two calls on one series, non-negative thresholds, the lower one flags more
C4_Witness ==
    /\ TwoCalls
    /\ 0 <= prev_call.threshold2 /\ prev_call.threshold2 < threshold2
    /\ \E c \in Columns :
           /\ CountTrue(anomalies[c]) >= 1
           /\ CountTrue(prev_call.anomalies[c]) > CountTrue(anomalies[c])

AsciiLower == {"a", "d", "g", "i", "m", "n", "r", "s", "u", "v", "z"}
AsciiUpper == {"A", "D", "G", "I", "M", "N", "R", "S", "U", "V", "Z"}
Ascii == AsciiLower \cup AsciiUpper \cup {" "}

\* unicodedata.normalize("NFKD", c) for one character
NFKD(c) ==
    CASE c = "U+011F" -> <<"g", "U+0306">>
      [] c = "U+011E" -> <<"G", "U+0306">>
      [] c = "U+015F" -> <<"s", "U+0327">>
      [] c = "U+015E" -> <<"S", "U+0327">>
      [] c = "U+00FC" -> <<"u", "U+0308">>
      [] c = "U+0130" -> <<"I", "U+0307">>
      [] OTHER -> <<c>>

\* str.lower() for one ASCII character
Lower(c) ==
    CASE c = "A" -> "a" [] c = "D" -> "d" [] c = "G" -> "g" [] c = "I" -> "i"
      [] c = "M" -> "m" [] c = "N" -> "n" [] c = "R" -> "r" [] c = "S" -> "s"
      [] c = "U" -> "u" [] c = "V" -> "v" [] c = "Z" -> "z"
      [] OTHER -> c

RECURSIVE NormalizeNFKD(_)
NormalizeNFKD(name) ==
    IF name = <<>> THEN <<>> ELSE NFKD(Head(name)) \o NormalizeNFKD(Tail(name))

\* .encode("ascii", "ignore").decode("ascii")
EncodeAsciiIgnore(name) == SelectSeq(name, LAMBDA c : c \in Ascii)

RECURSIVE LowerAll(_)
LowerAll(name) ==
    IF name = <<>> THEN <<>> ELSE <<Lower(Head(name))>> \o LowerAll(Tail(name))

\* .replace(" ", "")
RemoveSpaces(name) == SelectSeq(name, LAMBDA c : c # " ")

\* simulate_consumption.py:20-27 _normalize: the same without .replace(" ", "")
NormalizeKeepSpaces(name) == LowerAll(EncodeAsciiIgnore(NormalizeNFKD(name)))

\* data_utils.py:123-131 _normalize
normalize(name) == RemoveSpaces(LowerAll(EncodeAsciiIgnore(NormalizeNFKD(name))))

\* str.strip(), data_utils.py:144
RECURSIVE LStrip(_)
LStrip(s) == IF s # <<>> /\ Head(s) = " " THEN LStrip(Tail(s)) ELSE s

RECURSIVE RStrip(_)
RStrip(s) ==
    IF s # <<>> /\ s[Len(s)] = " " THEN RStrip(SubSeq(s, 1, Len(s) - 1)) ELSE s

Strip(s) == RStrip(LStrip(s))

Put(f, k, v) == [x \in (DOMAIN f) \cup {k} |-> IF x = k THEN v ELSE f[x]]

EmptyDict == [x \in {} |-> 0]

\* the set of the elements of a list
Range(s) == {s[i] : i \in 1 .. Len(s)}

(***************************************************************************)
(* data_utils.py:134-150 _load_city_totals: no file gives {}; a row whose  *)
(* value does not parse as a number is skipped; a later row overwrites an  *)
(* earlier one with the same normalized name; MWh become kWh.              *)
(***************************************************************************)
RECURSIVE LoadRows(_, _)
LoadRows(rows, totals) ==
    IF rows = <<>> THEN totals
    ELSE LET row == Head(rows)
             name == Strip(row.city)
         IN  IF ~row.numeric THEN LoadRows(Tail(rows), totals)
             ELSE LoadRows(Tail(rows), Put(totals, normalize(name), row.mwh * 1000))

load_city_totals(csv) == IF ~csv.exists THEN EmptyDict ELSE LoadRows(csv.rows, EmptyDict)

\* data_utils.py:153-160 _get_city_totals: the memo after the call
get_city_totals(memo, csv) ==
    IF ~memo.loaded THEN [loaded |-> TRUE, totals |-> load_city_totals(csv)] ELSE memo

(***************************************************************************)
(* numpy's global generator: seed(42) puts it in one fixed state, every    *)
(* normal variate advances it by one step and is a function of the state   *)
(* reached.  The generator is abstracted to eight states (a full-period    *)
(* linear congruence) and the standard normal variate to -2 .. 2.          *)
(***************************************************************************)
Seed == 42

RngStates == 0 .. 7

RngSeed(seed) == seed % 8

RngStep(s) == (5 * s + 3) % 8

RECURSIVE RngAfter(_, _)
RngAfter(s, n) == IF n = 0 THEN s ELSE RngAfter(RngStep(s), n - 1)

StandardNormal(s) == (s % 5) - 2

\* np.random.normal(0, sigma): the n-th variate drawn from state s
Normal(s, n, sigma) == sigma * StandardNormal(RngAfter(s, n))

(***************************************************************************)
(* data_utils.py:173-174: 100 + 20 sin(2 pi h / 24) + 10 sin(4 pi h / 24), *)
(* rounded to whole kWh, for the hours of day 0 .. 23.                     *)
(***************************************************************************)
BaseTable ==
    <<100, 110, 119, 124, 126, 124, 120, 114, 109, 104, 101, 100,
      100, 100, 99, 96, 91, 86, 80, 76, 74, 76, 81, 90>>

HourOfDay(ts) == ts % 24

base_pattern(hours) == [i \in 1 .. Len(hours) |-> BaseTable[HourOfDay(hours[i]) + 1]]

hrs_in_year == 365 * 24

\* a float: num / den; den = 0 is the IEEE result of dividing by zero
Frac(n, d) == [num |-> n, den |-> d]

IsNaN(v) == v.den = 0 /\ v.num = 0
IsInf(v) == v.den = 0 /\ v.num # 0
IsFinite(v) == v.den # 0

(***************************************************************************)
(* data_utils.py:187-192: scale the raw series to the yearly total.        *)
(*   target_total = totals[norm_name] * (h_len / hrs_in_year)              *)
(*   factor = target_total / series.sum() ;  series = series * factor      *)
(* so cell i becomes series[i] * total * h_len / (hrs_in_year * sum).      *)
(* numpy divides by a zero sum without raising: the factor is infinite     *)
(* and the cells are infinite (NaN where the raw cell is 0).               *)
(***************************************************************************)
\* a variant that divides the target by the number of hours, not by the sum
ScaleByLength(series, norm_name, totals, h_len) ==
    IF norm_name \in DOMAIN totals /\ totals[norm_name] > 0
    THEN [i \in 1 .. Len(series) |->
             Frac(series[i] * totals[norm_name] * h_len, hrs_in_year * h_len)]
    ELSE [i \in 1 .. Len(series) |-> Frac(series[i], 1)]

scale_to_total(series, norm_name, totals, h_len) ==
    IF norm_name \in DOMAIN totals /\ totals[norm_name] > 0
    THEN [i \in 1 .. Len(series) |->
             Frac(series[i] * totals[norm_name] * h_len, hrs_in_year * SeqSum(series))]
    ELSE [i \in 1 .. Len(series) |-> Frac(series[i], 1)]

\* data_utils.py:183-185: the raw series of the city whose draws start in state s
raw_series(hours, s) ==
    LET base == base_pattern(hours)
        city_offset == Normal(s, 1, 5)
    IN  [i \in 1 .. Len(hours) |-> base[i] + city_offset + Normal(s, 1 + i, 3)]

\* data_utils.py:194: consumption[name] = series (a new column goes last)
SetColumn(frame, name, series) ==
    [index |-> frame.index,
     columns |-> IF name \in DOMAIN frame.data THEN frame.columns
                 ELSE Append(frame.columns, name),
     data |-> Put(frame.data, name, series)]

\* data_utils.py:182-194: the loop over the cities, s the generator's state
RECURSIVE CityLoop(_, _, _, _, _)
CityLoop(cities, hours, totals, s, frame) ==
    IF cities = <<>> THEN frame
    ELSE LET h_len == Len(hours)
             series == scale_to_total(raw_series(hours, s), normalize(Head(cities)),
                                      totals, h_len)
         IN  CityLoop(Tail(cities), hours, totals, RngAfter(s, 1 + h_len),
                      SetColumn(frame, Head(cities), series))

\* the same loop with the draws started wherever the generator stands (no reseeding)
generate_frame_unseeded(cities, hours, totals, s) ==
    CityLoop(cities, hours, totals, s, [index |-> hours, columns |-> <<>>, data |-> EmptyDict])

\* a loop that drops the last city
generate_frame_short(cities, hours, totals, s) ==
    CityLoop(IF cities = <<>> THEN cities ELSE SubSeq(cities, 1, Len(cities) - 1),
             hours, totals, RngSeed(Seed),
             [index |-> hours, columns |-> <<>>, data |-> EmptyDict])

\* data_utils.py:172-196: s is the generator's state at the call; seed(42) discards it
generate_frame(cities, hours, totals, s) ==
    CityLoop(cities, hours, totals, RngSeed(Seed),
             [index |-> hours, columns |-> <<>>, data |-> EmptyDict])

(***************************************************************************)
(* Bounds of the generator's inputs.                                       *)
(***************************************************************************)
MaxRegions == 2
MaxHours == 2

Agri == <<"A", "g", "r", "i">>
Van == <<"V", "a", "n">>
Mus == <<"M", "u", "s">>
RegionNames == {Agri, Van, Mus}

IsUnique(s) == \A i, j \in 1 .. Len(s) : i # j => s[i] # s[j]
RegionLists == {l \in SeqsUpTo(RegionNames, MaxRegions) : IsUnique(l)}

\* totals files: a row is [city, numeric, mwh]; the spellings are those of a Turkish source
CsvRow(name, numeric, mwh) == [city |-> name, numeric |-> numeric, mwh |-> mwh]
AgriTr == <<"A", "U+011F", "r", "U+0131">>
VanPadded == <<" ", "V", "A", "N", " ">>
MusTr == <<"M", "u", "U+015F">>
CsvFiles ==
    {[exists |-> FALSE, rows |-> <<>>],
     [exists |-> TRUE, rows |-> <<>>],
     [exists |-> TRUE, rows |-> <<CsvRow(VanPadded, TRUE, 3), CsvRow(AgriTr, TRUE, 3)>>],
     [exists |-> TRUE, rows |-> <<CsvRow(MusTr, TRUE, 5), CsvRow(VanPadded, FALSE, 0)>>],
     [exists |-> TRUE, rows |-> <<CsvRow(MusTr, TRUE, 3), CsvRow(Mus, TRUE, 0)>>]}

\* an hourly index: consecutive timestamps (in hours) from a start
HourStarts == {23}
HoursIndex(start, h) == [i \in 1 .. h |-> start + i - 1]
HourIndexes == {HoursIndex(st, h) : st \in HourStarts, h \in 0 .. MaxHours}

GenInit ==
    /\ CITIES \in RegionLists
    /\ totals_csv \in CsvFiles
    /\ CITY_TOTALS_KWH = [loaded |-> FALSE, totals |-> EmptyDict]
    /\ np_random \in RngStates
    /\ generate_calls = <<>>

(***************************************************************************)
(* data_utils.py:163-196 generate_consumption(hours).                      *)
(***************************************************************************)
GenerateConsumption(hours) ==
    LET memo == get_city_totals(CITY_TOTALS_KWH, totals_csv)
        frame == generate_frame(CITIES, hours, memo.totals, np_random)
    IN  /\ CITY_TOTALS_KWH' = memo
        /\ np_random' = RngAfter(RngSeed(Seed), Len(CITIES) * (1 + Len(hours)))
        /\ generate_calls' = LastTwo(Append(generate_calls, [hours |-> hours, frame |-> frame]))
        /\ UNCHANGED <<CITIES, totals_csv, det_vars, scale_vars, rec_vars, load_vars, fc_vars>>

\* any other user of the global generator draws a variate
OtherDraw ==
    /\ np_random' = RngStep(np_random)
    /\ UNCHANGED <<CITIES, totals_csv, CITY_TOTALS_KWH, generate_calls, det_vars, scale_vars, rec_vars,
                   load_vars, fc_vars>>

\* the totals file is written, replaced or removed; the file system stamps it
WriteTotalsCsv(file) ==
    /\ file # totals_csv
    /\ totals_csv' = file
    /\ totals_csv_mtime' = clock
    /\ UNCHANGED <<CITIES, CITY_TOTALS_KWH, np_random, generate_calls, det_vars, scale_vars, rec_vars,
                   clock, data_path, load_calls, fc_vars>>




(***************************************************************************)
(* data_utils.py:204-234: the cache file of the generated data.            *)
(* DataFrame.to_csv writes a header (an empty label for the index, then    *)
(* the column names) and one line per row: the index label and the cells,  *)
(* a NaN cell as an empty field.  pd.read_csv(path, index_col=0,           *)
(* parse_dates=True) reads the labels back as the index and an empty       *)
(* field as NaN.                                                           *)
(***************************************************************************)
MaxClock == 2

NoFile == [exists |-> FALSE, mtime |-> 0, content |-> [header |-> <<>>, lines |-> <<>>]]

\* one cell of the file: empty for NaN, the number's text otherwise
CellText(v) == IF IsNaN(v) THEN [empty |-> TRUE, text |-> Frac(0, 1)]
               ELSE [empty |-> FALSE, text |-> v]

\* one field read back as a float
ParseCell(c) == IF c.empty THEN Frac(0, 0) ELSE c.text

\* data_utils.py:210 consumption.to_csv(path)
to_csv(frame) ==
    [header |-> frame.columns,
     lines |-> [i \in 1 .. Len(frame.index) |->
                   [label |-> frame.index[i],
                    cells |-> [k \in 1 .. Len(frame.columns) |->
                                  CellText(frame.data[frame.columns[k]][i])]]]]

\* data_utils.py:234 pd.read_csv(path, index_col=0, parse_dates=True)
read_csv(content) ==
    [index |-> [i \in 1 .. Len(content.lines) |-> content.lines[i].label],
     columns |-> content.header,
     data |-> [c \in Range(content.header) |->
                  LET k == CHOOSE j \in 1 .. Len(content.header) : content.header[j] = c
                  IN  [i \in 1 .. Len(content.lines) |-> ParseCell(content.lines[i].cells[k])]]]

\* data_utils.py:204-210 save_consumption: the file after the write
save_consumption(frame, now) == [exists |-> TRUE, mtime |-> now, content |-> to_csv(frame)]

\* a variant that also regenerates when the two files carry the same stamp
should_regenerate_ge(force, path_exists, totals_exists, totals_mtime, path_mtime) ==
    IF force \/ ~path_exists THEN TRUE
    ELSE IF totals_exists THEN totals_mtime >= path_mtime
    ELSE FALSE

\* data_utils.py:223-227: totals_mtime is None when the totals file is absent
should_regenerate(force, path_exists, totals_exists, totals_mtime, path_mtime) ==
    IF force \/ ~path_exists THEN TRUE
    ELSE IF totals_exists THEN totals_mtime > path_mtime
    ELSE FALSE

(***************************************************************************)
(* data_utils.py:213-234 load_consumption(force=...).  The call of         *)
(* generate_consumption() takes the hours of the last week from the wall   *)
(* clock (lines 170-171); they are an input here.                          *)
(***************************************************************************)
LoadConsumption(force, hours) ==
    /\ IF should_regenerate(force, data_path.exists, totals_csv.exists,
                            totals_csv_mtime, data_path.mtime)
       THEN \E memo \in {get_city_totals(CITY_TOTALS_KWH, totals_csv)} :
            \E data \in {generate_frame(CITIES, hours, memo.totals, np_random)} :
                /\ CITY_TOTALS_KWH' = memo
                /\ np_random' = RngAfter(RngSeed(Seed), Len(CITIES) * (1 + Len(hours)))
                /\ generate_calls' =
                       LastTwo(Append(generate_calls, [hours |-> hours, frame |-> data]))
                /\ data_path' = save_consumption(data, clock)
                /\ load_calls' = <<[force |-> force, hours |-> hours,
                                    regenerated |-> TRUE, data |-> data]>>
       ELSE /\ load_calls' = <<[force |-> force, hours |-> hours,
                                regenerated |-> FALSE, data |-> read_csv(data_path.content)]>>
            /\ UNCHANGED <<CITY_TOTALS_KWH, np_random, generate_calls, data_path>>
    /\ UNCHANGED <<CITIES, totals_csv, totals_csv_mtime, clock,
                   det_vars, scale_vars, rec_vars, fc_vars>>

\* time passes: files written later carry a later stamp
Tick ==
    /\ clock < MaxClock
    /\ clock' = clock + 1
    /\ UNCHANGED <<gen_vars, totals_csv_mtime, data_path, load_calls,
                   det_vars, scale_vars, rec_vars, fc_vars>>

(***************************************************************************)
(* The scaling step of generate_consumption (data_utils.py:187-192) on its *)
(* own: a raw series and a totals table are the inputs.                    *)
(***************************************************************************)
MaxRaw == 3
RawValues == {-1, 0, 2}
TotalsTables == {EmptyDict} \cup {[n \in {normalize(Agri)} |-> mwh * 1000] : mwh \in {0, 3}}

ScaleInit ==
    /\ raw_in \in SeqsUpTo(RawValues, MaxRaw)
    /\ totals_in \in TotalsTables
    /\ stored = <<>>

ScaleSeries ==
    /\ stored = <<>>
    /\ stored' = <<scale_to_total(raw_in, normalize(Agri), totals_in, Len(raw_in))>>
    /\ UNCHANGED <<raw_in, totals_in, det_vars, gen_vars, rec_vars, load_vars, fc_vars>>

(***************************************************************************)
(*               recommend.py: the recommendation engine                   *)
(***************************************************************************)

\* recommend.py:8-44 _template_pool: the number of templates of each pool
PoolKeys == {"midday", "evening", "morning", "flat", "rising", "high_peak_ratio"}

PoolSize(key) ==
    CASE key = "midday" -> 5
      [] key = "evening" -> 5
      [] key = "morning" -> 4
      [] key = "flat" -> 4
      [] key = "rising" -> 2
      [] key = "high_peak_ratio" -> 2

\* a template is named by its pool and its position in the pool
template_pool(key) == [i \in 1 .. PoolSize(key) |-> [pool |-> key, idx |-> i]]

\* recommend.py:10-42: the placeholders each template holds
Placeholders(tpl) ==
    CASE tpl.pool = "midday" ->
             <<{"peak_start", "peak_end"}, {"off_start", "off_end"}, {"city"},
               {"off_start"}, {"peak_start"}>>[tpl.idx]
      [] tpl.pool = "evening" ->
             <<{"peak_start", "peak_end", "off_start"}, {"off_start", "off_end"},
               {"city", "peak_end"}, {"peak_start", "peak_end"}, {"off_start"}>>[tpl.idx]
      [] tpl.pool = "morning" ->
             <<{"peak_start", "peak_end", "off_start"}, {}, {"off_start"}, {}>>[tpl.idx]
      [] tpl.pool = "flat" ->
             <<{"off_start", "off_end"}, {}, {"city"}, {}>>[tpl.idx]
      [] tpl.pool = "rising" ->
             <<{"trend_pct"}, {"trend_pct"}>>[tpl.idx]
      [] tpl.pool = "high_peak_ratio" ->
             <<{"peak_ratio", "off_start", "off_end"}, {"peak_ratio"}>>[tpl.idx]

\* int(x) of Python for the quotient a / b, b > 0: truncation towards zero
TruncDiv(a, b) == IF a >= 0 THEN a \div b ELSE -((-a) \div b)

(***************************************************************************)
(* recommend.py:53-54 df.groupby("hour")["yhat"].mean(): for every hour of *)
(* day the sum and the count of its rows (mean = sum / count); the hours   *)
(* with no row are no groups.                                              *)
(***************************************************************************)
RECURSIVE GroupRows(_, _, _)
GroupRows(rows, i, acc) ==
    IF i > Len(rows) THEN acc
    ELSE LET h == HourOfDay(rows[i].ds)
         IN  GroupRows(rows, i + 1,
                 [acc EXCEPT ![h] = [sum |-> @.sum + rows[i].yhat, count |-> @.count + 1]])

hourly_mean(rows) == GroupRows(rows, 1, [h \in 0 .. 23 |-> [sum |-> 0, count |-> 0]])

GroupKeys(hm) == {h \in DOMAIN hm : hm[h].count > 0}

\* mean of hour g < mean of hour h
MeanLess(hm, g, h) == hm[g].sum * hm[h].count < hm[h].sum * hm[g].count

\* recommend.py:55 hourly_mean.idxmax(): the first hour holding the largest mean
idxmax(hm) ==
    CHOOSE h \in GroupKeys(hm) :
        \A g \in GroupKeys(hm) : ~MeanLess(hm, h, g) /\ (g < h => MeanLess(hm, g, h))

\* recommend.py:56 hourly_mean.idxmin(): the first hour holding the smallest mean
idxmin(hm) ==
    CHOOSE h \in GroupKeys(hm) :
        \A g \in GroupKeys(hm) : ~MeanLess(hm, g, h) /\ (g < h => MeanLess(hm, h, g))

(***************************************************************************)
(* recommend.py:59: hourly_mean[peak] / max(hourly_mean[off], 1e-6), as a  *)
(* fraction with a positive denominator.  The means are quotients of an    *)
(* integer sum by a count, so the off-peak mean is below 1e-6 exactly when *)
(* its sum is not positive.                                                *)
(***************************************************************************)
peak_ratio(hm, pk, off) ==
    IF hm[off].sum > 0
    THEN Frac(hm[pk].sum * hm[off].count, hm[pk].count * hm[off].sum)
    ELSE Frac(hm[pk].sum * 1000000, hm[pk].count)

\* recommend.py:62-63: the sums of df.iloc[:24]["yhat"] and df.iloc[-24:]["yhat"]
TrendWindow == 24

Min(a, b) == IF a < b THEN a ELSE b
Max(a, b) == IF a > b THEN a ELSE b

RECURSIVE YhatSum(_, _, _)
YhatSum(rows, from, to) ==
    IF from > to THEN 0 ELSE rows[from].yhat + YhatSum(rows, from + 1, to)

first_24(rows) == YhatSum(rows, 1, Min(TrendWindow, Len(rows)))
last_24(rows) == YhatSum(rows, Max(1, Len(rows) - TrendWindow + 1), Len(rows))

(***************************************************************************)
(* recommend.py:64: int((last_24 - first_24) / first_24 * 100).  Both      *)
(* windows hold the same number of rows, so the quotient of the means is   *)
(* the quotient of the sums.  first_24 = 0 makes the quotient infinite or  *)
(* NaN, and int() of it raises.                                            *)
(***************************************************************************)
trend_fault(rows) ==
    IF first_24(rows) # 0 THEN "none"
    ELSE IF last_24(rows) = 0 THEN "ValueError: cannot convert float NaN to integer"
    ELSE "OverflowError: cannot convert float infinity to integer"

trend_pct(rows) ==
    LET f == first_24(rows)
        d == last_24(rows) - first_24(rows)
    IN  IF f > 0 THEN TruncDiv(d * 100, f) ELSE TruncDiv((0 - d) * 100, 0 - f)

\* a variant of the category chain with the evening range ending at 21
category_short_evening(peak_hour) ==
    IF 11 <= peak_hour /\ peak_hour <= 16 THEN "midday"
    ELSE IF 17 <= peak_hour /\ peak_hour <= 21 THEN "evening"
    ELSE IF 6 <= peak_hour /\ peak_hour <= 10 THEN "morning"
    ELSE "flat"

\* recommend.py:71-79
category_of(peak_hour) ==
    IF 11 <= peak_hour /\ peak_hour <= 16 THEN "midday"
    ELSE IF 17 <= peak_hour /\ peak_hour <= 22 THEN "evening"
    ELSE IF 6 <= peak_hour /\ peak_hour <= 10 THEN "morning"
    ELSE "flat"

\* recommend.py:82-86
extra_keys(ratio, trend) ==
    (IF ratio.num > 2 * ratio.den THEN <<"high_peak_ratio">> ELSE <<>>)
    \o (IF trend > 5 THEN <<"rising">> ELSE <<>>)

RECURSIVE ConcatPools(_)
ConcatPools(keys) ==
    IF keys = <<>> THEN <<>> ELSE template_pool(Head(keys)) \o ConcatPools(Tail(keys))

\* a variant that offers every pool
templates_all(category, extras) ==
    ConcatPools(<<"midday", "evening", "morning", "flat">>) \o ConcatPools(extras)

\* recommend.py:88
templates_of(category, extras) == template_pool(category) \o ConcatPools(extras)

\* recommend.py:66-69
peak_start(peak_hour) == (peak_hour - 1) % 24
peak_end(peak_hour) == (peak_hour + 1) % 24

\* recommend.py:92-102: the values handed to str.format
FormatArgs(pk, off, trend, ratio) ==
    [peak_start |-> peak_start(pk),
     peak_end |-> peak_end(pk),
     off_start |-> peak_start(off),
     off_end |-> peak_end(off),
     trend_pct |-> trend,
     peak_ratio |-> TruncDiv(ratio.num, ratio.den)]

\* t.format(...): the template with the values of the placeholders it holds
Render(tpl, args, city) ==
    [pool |-> tpl.pool,
     idx |-> tpl.idx,
     values |-> [f \in Placeholders(tpl) \ {"city"} |-> args[f]],
     city |-> IF "city" \in Placeholders(tpl)
              THEN (IF city = "" THEN "Sehriniz" ELSE city) ELSE "-"]

\* a variant that draws the two positions independently (with replacement)
SamplesWithReplacement(templates) ==
    IF Len(templates) >= 2
    THEN {<<templates[i], templates[j]>> : i, j \in 1 .. Len(templates)}
    ELSE {templates}

\* random.sample(templates, k): k different positions of the list, in any order
Samples(templates) ==
    IF Len(templates) >= 2
    THEN {<<templates[i], templates[j]>> : i, j \in 1 .. Len(templates)}
         \ {<<templates[i], templates[i]>> : i \in 1 .. Len(templates)}
    ELSE {templates}

NoLocals ==
    [peak_hour |-> 0, off_hour |-> 0, category |-> "-", extra_keys |-> <<>>,
     peak_start |-> 0, peak_end |-> 0, off_start |-> 0, off_end |-> 0]

Raised(fault) ==
    [status |-> "raised", fault |-> fault, suggestions |-> <<>>, locals |-> NoLocals]

(***************************************************************************)
(* Bounds of the engine's inputs: a forecast table covers consecutive      *)
(* hours from a start hour; its first row holds one value, the other rows  *)
(* of the first day a second one, and the rows after the first day a third.*)
(***************************************************************************)
MaxShortRows == 2
RowCounts == (1 .. MaxShortRows) \cup ((TrendWindow + 1) .. (TrendWindow + MaxShortRows))
FirstValues == {-1, 0, 2, 3, 18}
DayValues == {0, 1}
LaterValues == {1, 5, 19}
ColumnSets == {{"ds", "yhat"}, {"ds", "yhat", "yhat_lower", "yhat_upper"},
               {"ds", "yhat_lower"}, {"yhat"}}

ForecastRows(start, n, b, a, c) ==
    [i \in 1 .. n |->
        [ds |-> start + i - 1,
         yhat |-> IF i = 1 THEN b ELSE IF i <= TrendWindow THEN a ELSE c]]

ForecastTables ==
    {[columns |-> cols, rows |-> ForecastRows(st, n, b, a, c)] :
        cols \in ColumnSets, st \in 0 .. 23, n \in RowCounts,
        b \in FirstValues, a \in DayValues, c \in LaterValues}

RecInit ==
    /\ forecast_df \in ForecastTables
    /\ outcome = [status |-> "idle", fault |-> "none", suggestions |-> <<>>,
                  locals |-> NoLocals]

(***************************************************************************)
(* recommend.py:47-103 generate_suggestions(forecast_df, city).            *)
(***************************************************************************)
Returned(chosen, pk, off, cat, extras, args, city) ==
    [status |-> "returned",
     fault |-> "none",
     suggestions |-> [i \in 1 .. Len(chosen) |-> Render(chosen[i], args, city)],
     locals |-> [peak_hour |-> pk, off_hour |-> off, category |-> cat, extra_keys |-> extras,
                 peak_start |-> args.peak_start, peak_end |-> args.peak_end,
                 off_start |-> args.off_start, off_end |-> args.off_end]]

\* a variant of the validation that is content with either column
has_any_required_column(columns) == {"ds", "yhat"} \cap columns # {}

\* recommend.py:49: {"ds", "yhat"}.issubset(forecast_df.columns)
has_required_columns(columns) == {"ds", "yhat"} \subseteq columns

\* one call on the table; the locals are bound once, in the order the code computes them
GenerateSuggestions(city) ==
    /\ outcome.status = "idle"
    /\ IF ~has_required_columns(forecast_df.columns)
       THEN outcome' = Raised("ValueError: forecast_df must contain 'ds' and 'yhat' columns")
       ELSE IF trend_fault(forecast_df.rows) # "none"
       THEN outcome' = Raised(trend_fault(forecast_df.rows))
       ELSE \E hm \in {hourly_mean(forecast_df.rows)} :
            \E pk \in {idxmax(hm)} :
            \E off \in {idxmin(hm)} :
            \E ratio \in {peak_ratio(hm, pk, off)} :
            \E trend \in {trend_pct(forecast_df.rows)} :
            \E cat \in {category_of(pk)} :
            \E extras \in {extra_keys(ratio, trend)} :
            \E args \in {FormatArgs(pk, off, trend, ratio)} :
            \E chosen \in Samples(templates_of(cat, extras)) :
                outcome' = Returned(chosen, pk, off, cat, extras, args, city)
    /\ UNCHANGED <<forecast_df, det_vars, gen_vars, scale_vars, load_vars, fc_vars>>

CityArgs == {"", "Van"}

(***************************************************************************)
(*                     forecast.py: the forecaster                         *)
(* A series' index is [tz, ds]: tz is [aware, offset] (the offset from UTC *)
(* in hours) and ds the timestamps in hours, instants on the UTC line for  *)
(* an aware index and wall-clock readings for a naive one.  Prophet itself *)
(* is outside the model: the forecaster's step is the frame it hands to    *)
(* fit.                                                                    *)
(***************************************************************************)
MaxStamps == 2

NaiveTz == [aware |-> FALSE, offset |-> 0]
Timezones == {NaiveTz} \cup {[aware |-> TRUE, offset |-> o] : o \in {0, 3, -5}}
StampStarts == 0 .. 23

\* Series.dt.tz_localize(None): drop the zone, keep the wall-clock reading
tz_localize_none(tz, ds) == [i \in 1 .. Len(ds) |-> ds[i] + tz.offset]

\* Series.dt.tz_convert(None): convert to UTC, then drop the zone
tz_convert_none(tz, ds) == ds

\* forecast.py:11-13 _prepare_prophet_frame
prepare_prophet_frame(series) == [tz |-> series.tz, ds |-> series.ds, y |-> series.y]

\* forecast.py:44-47: the frame forecast_city fits
city_frame(series) ==
    LET df == prepare_prophet_frame(series)
    IN  IF df.tz.aware
        THEN [tz |-> NaiveTz, ds |-> tz_localize_none(df.tz, df.ds), y |-> df.y]
        ELSE df

\* forecast.py:67-73: the frame forecast_consumption fits
consumption_frame(city_df) ==
    LET prophet_df == [tz |-> city_df.tz, ds |-> city_df.ds, y |-> city_df.y]
    IN  IF prophet_df.tz.aware
        THEN [tz |-> NaiveTz, ds |-> tz_convert_none(prophet_df.tz, prophet_df.ds),
              y |-> prophet_df.y]
        ELSE prophet_df

FcInit ==
    /\ fc_input \in {[tz |-> tz, ds |-> HoursIndex(st, n), y |-> [i \in 1 .. n |-> 100]] :
                        tz \in Timezones, st \in StampStarts, n \in 1 .. MaxStamps}
    /\ city_fit = <<>>
    /\ consumption_fit = <<>>

\* forecast.py:16-56 forecast_city, up to model.fit(df)
ForecastCity ==
    /\ city_fit' = <<city_frame(fc_input)>>
    /\ UNCHANGED <<fc_input, consumption_fit, det_vars, gen_vars, scale_vars, rec_vars, load_vars>>

\* forecast.py:59-82 forecast_consumption, up to m.fit(prophet_df)
ForecastConsumption ==
    /\ consumption_fit' = <<consumption_frame(fc_input)>>
    /\ UNCHANGED <<fc_input, city_fit, det_vars, gen_vars, scale_vars, rec_vars, load_vars>>

(***************************************************************************)
(* Specifications: one per component; the other components stay idle.      *)
(***************************************************************************)
DetIdle ==
    /\ consumption = [c \in Columns |-> <<>>]
    /\ detect_calls = <<>>

GenIdle ==
    /\ CITIES = <<>>
    /\ totals_csv = [exists |-> FALSE, rows |-> <<>>]
    /\ CITY_TOTALS_KWH = [loaded |-> FALSE, totals |-> EmptyDict]
    /\ np_random = 0
    /\ generate_calls = <<>>

ScaleIdle ==
    /\ raw_in = <<>>
    /\ totals_in = EmptyDict
    /\ stored = <<>>

RecIdle ==
    /\ forecast_df = [columns |-> {}, rows |-> <<>>]
    /\ outcome = [status |-> "idle", fault |-> "none", suggestions |-> <<>>,
                  locals |-> NoLocals]

LoadIdle ==
    /\ clock = 1
    /\ totals_csv_mtime = 0
    /\ data_path = NoFile
    /\ load_calls = <<>>

FcIdle ==
    /\ fc_input = [tz |-> NaiveTz, ds |-> <<>>, y |-> <<>>]
    /\ city_fit = <<>>
    /\ consumption_fit = <<>>

Init == GenInit /\ DetIdle /\ ScaleIdle /\ RecIdle /\ LoadIdle /\ FcIdle
Next ==
    \/ \E hours \in HourIndexes : GenerateConsumption(hours)
    \/ OtherDraw
    \/ \E file \in CsvFiles : WriteTotalsCsv(file)
Spec == Init /\ [][Next]_vars

InitDetect == DetInit /\ GenIdle /\ ScaleIdle /\ RecIdle /\ LoadIdle /\ FcIdle
NextDetect == \E k \in Thresholds2 : DetectAnomalies(k)
SpecDetect == InitDetect /\ [][NextDetect]_vars

InitScale == ScaleInit /\ DetIdle /\ GenIdle /\ RecIdle /\ LoadIdle /\ FcIdle
NextScale == ScaleSeries
SpecScale == InitScale /\ [][NextScale]_vars

InitRecommend == RecInit /\ DetIdle /\ GenIdle /\ ScaleIdle /\ LoadIdle /\ FcIdle
NextRecommend == \E city \in CityArgs : GenerateSuggestions(city)
SpecRecommend == InitRecommend /\ [][NextRecommend]_vars

InitLoad == GenInit /\ LoadIdle /\ DetIdle /\ ScaleIdle /\ RecIdle /\ FcIdle
NextLoad ==
    \/ \E force \in BOOLEAN, hours \in HourIndexes : LoadConsumption(force, hours)
    \/ \E file \in CsvFiles : WriteTotalsCsv(file)
    \/ Tick
SpecLoad == InitLoad /\ [][NextLoad]_vars

InitForecast == FcInit /\ DetIdle /\ GenIdle /\ ScaleIdle /\ RecIdle /\ LoadIdle
NextForecast ==
    \/ ForecastCity
    \/ ForecastConsumption
SpecForecast == InitForecast /\ [][NextForecast]_vars



(***************************************************************************)
(*                   Claims about the series generator                     *)
(***************************************************************************)
Generated == Len(generate_calls) >= 1
LastGen == generate_calls[Len(generate_calls)]
FirstGen == generate_calls[1]

IsScaled(series) == \E i \in 1 .. Len(series) : series[i].den # 1

(***************************************************************************)
(* C2: for every list of unique regions and every hourly index of length   *)
(* H, generate_consumption returns a table with exactly H rows and one     *)
(* column per region, all columns on the input index, no cell missing.     *)
(***************************************************************************)
C2_ShapeOfFrame ==
    Generated =>
        LET f == LastGen.frame
        IN  /\ f.index = LastGen.hours
            /\ f.columns = CITIES
            /\ Len(f.columns) = Len(CITIES)
            /\ DOMAIN f.data = Range(CITIES)
            /\ \A c \in DOMAIN f.data :
                   /\ Len(f.data[c]) = Len(LastGen.hours)
                   /\ \A i \in 1 .. Len(f.data[c]) : ~IsNaN(f.data[c][i])

\* two regions, two hours, one of the columns scaled to its yearly total
C2_Witness ==
    /\ Generated
    /\ Len(CITIES) = 2
    /\ Len(LastGen.hours) = 2
    /\ Len(LastGen.frame.columns) = 2
    /\ \E c \in DOMAIN LastGen.frame.data : IsScaled(LastGen.frame.data[c])

(***************************************************************************)
(* C3: two generate_consumption runs with the same region list and the     *)
(* same timestamp index produce identical output, whatever happened        *)
(* between them (other generation calls, other draws from the global       *)
(* random source, a rewritten totals file).                                *)
(***************************************************************************)
C3_Deterministic ==
    (Len(generate_calls) = 2 /\ FirstGen.hours = LastGen.hours) =>
        FirstGen.frame = LastGen.frame

\* two runs on the same non-empty index for a non-empty region list
C3_Witness ==
    /\ Len(generate_calls) = 2
    /\ FirstGen.hours = LastGen.hours
    /\ Len(LastGen.hours) >= 2
    /\ Len(LastGen.frame.columns) >= 2
    /\ FirstGen.frame = LastGen.frame
    /\ np_random # RngAfter(RngSeed(Seed), Len(CITIES) * (1 + Len(LastGen.hours)))

(***************************************************************************)
(*                    Claims about the scaling step                        *)
(***************************************************************************)
Stored == stored # <<>>
Key == normalize(Agri)
HasPositiveTotal == Key \in DOMAIN totals_in /\ totals_in[Key] > 0

RECURSIVE NumSum(_)
NumSum(s) == IF s = <<>> THEN 0 ELSE Head(s).num + NumSum(Tail(s))

SameDen(s) == \A i, j \in 1 .. Len(s) : s[i].den = s[j].den

(***************************************************************************)
(* C6: for every region with a positive yearly total T and a raw series    *)
(* with non-zero sum, the rescaled series sums to T * (H / 8760), so the   *)
(* window sum times 8760 / H recovers T.                                   *)
(* (window sum = NumSum / den; it equals T * H / 8760 iff                  *)
(*  NumSum * 8760 = T * H * den.)                                          *)
(***************************************************************************)
C6_RoundTrip ==
    (Stored /\ HasPositiveTotal /\ SeqSum(raw_in) # 0) =>
        LET s == stored[1]
        IN  /\ SameDen(s)
            /\ s[1].den # 0
            /\ NumSum(s) * hrs_in_year = totals_in[Key] * Len(raw_in) * s[1].den

\* a scaled series of several hours with cells of both signs
C6_Witness ==
    /\ Stored /\ HasPositiveTotal /\ SeqSum(raw_in) # 0
    /\ Len(raw_in) = 3
    /\ \E i, j \in 1 .. 3 : raw_in[i] < 0 /\ raw_in[j] > 0
    /\ IsScaled(stored[1])

MissingColumnsFault == "ValueError: forecast_df must contain 'ds' and 'yhat' columns"
HourFields == {"peak_start", "peak_end", "off_start", "off_end"}
Suggestions == {outcome.suggestions[i] : i \in 1 .. Len(outcome.suggestions)}

(***************************************************************************)
(* C8: generate_suggestions raises ValueError whenever the forecast table  *)
(* lacks the column 'ds' or the column 'yhat', before computing anything   *)
(* or returning any suggestion.                                            *)
(***************************************************************************)
C8_MissingColumnsRaise ==
    (outcome.status # "idle"
        /\ ("ds" \notin forecast_df.columns \/ "yhat" \notin forecast_df.columns)) =>
        /\ outcome.status = "raised"
        /\ outcome.fault = MissingColumnsFault
        /\ outcome.suggestions = <<>>
        /\ outcome.locals = NoLocals

\* a table of more than a day of rows that has 'yhat' but no 'ds'
C8_Witness ==
    /\ outcome.status = "raised"
    /\ outcome.fault = MissingColumnsFault
    /\ "yhat" \in forecast_df.columns /\ "ds" \notin forecast_df.columns
    /\ Len(forecast_df.rows) > TrendWindow

(***************************************************************************)
(* C9: for every peak hour in 0..23 exactly one category is assigned:      *)
(* morning for 6..10, midday for 11..16, evening for 17..22, flat for      *)
(* every other hour; the display window is peak_start = (peak_hour - 1)    *)
(* mod 24 and peak_end = (peak_hour + 1) mod 24, and every substituted     *)
(* hour is in 0..23.                                                       *)
(***************************************************************************)
C9_CategoryAndWindow ==
    outcome.status = "returned" =>
        LET l == outcome.locals
        IN  /\ l.peak_hour \in 0 .. 23
            /\ l.category \in {"morning", "midday", "evening", "flat"}
            /\ l.category = "morning" <=> l.peak_hour \in 6 .. 10
            /\ l.category = "midday" <=> l.peak_hour \in 11 .. 16
            /\ l.category = "evening" <=> l.peak_hour \in 17 .. 22
            /\ l.category = "flat" <=> l.peak_hour \in (0 .. 5) \cup {23}
            /\ l.peak_start = (l.peak_hour + 23) % 24
            /\ l.peak_end = (l.peak_hour + 1) % 24
            /\ \A s \in Suggestions : \A f \in (DOMAIN s.values) \cap HourFields :
                   s.values[f] \in 0 .. 23 /\ s.values[f] = l[f]

\* the peak at hour 19: evening, window 18 to 20, and a suggestion showing the window
C9_Witness ==
    /\ outcome.status = "returned"
    /\ outcome.locals.peak_hour = 19
    /\ outcome.locals.category = "evening"
    /\ outcome.locals.peak_start = 18 /\ outcome.locals.peak_end = 20
    /\ \E s \in Suggestions :
           /\ {"peak_start", "peak_end"} \subseteq DOMAIN s.values
           /\ s.values["peak_start"] = 18 /\ s.values["peak_end"] = 20

\* the peak at hour 0: the window wraps around midnight
C9_WitnessMidnight ==
    /\ outcome.status = "returned"
    /\ outcome.locals.peak_hour = 0
    /\ outcome.locals.category = "flat"
    /\ outcome.locals.peak_start = 23 /\ outcome.locals.peak_end = 1

(***************************************************************************)
(* C10: every suggestion returned is rendered from a template of the pool  *)
(* of the forecast's own peak category, or of an auxiliary pool (rising,   *)
(* high_peak_ratio) whose threshold was exceeded; a midday forecast never  *)
(* yields a template of the evening, morning or flat pool, and likewise    *)
(* for the other categories.                                               *)
(***************************************************************************)
C10_OwnPoolOnly ==
    outcome.status = "returned" =>
        \A s \in Suggestions :
            /\ s.pool \in {outcome.locals.category} \cup Range(outcome.locals.extra_keys)
            /\ s.pool \in {"morning", "midday", "evening", "flat"} =>
                   s.pool = outcome.locals.category
            /\ s.idx \in 1 .. PoolSize(s.pool)

\* a midday forecast answered with one midday template and one auxiliary template
C10_Witness ==
    /\ outcome.status = "returned"
    /\ outcome.locals.category = "midday"
    /\ outcome.locals.extra_keys = <<"high_peak_ratio", "rising">>
    /\ \E s \in Suggestions : s.pool = "midday"
    /\ \E s \in Suggestions : s.pool = "rising"

(***************************************************************************)
(* C11: whenever generate_suggestions returns, it returns exactly 2        *)
(* suggestions rendered from two different templates of the eligible pool  *)
(* (the category's pool followed by the auxiliary pools); it returns fewer *)
(* only when the eligible pool holds fewer than 2 templates, and then all  *)
(* of them.                                                                *)
(***************************************************************************)
EligiblePool == templates_of(outcome.locals.category, outcome.locals.extra_keys)

PercentChangeAbove5(rows) ==
    LET f == first_24(rows)
        d == last_24(rows) - first_24(rows)
    IN  IF f > 0 THEN d * 100 > 5 * f ELSE (0 - d) * 100 > 5 * (0 - f)

\* mean(peak hour) / mean(off-peak hour) > 2 (a positive mean over a zero one is infinite)
MeanRatioAbove2(rows) ==
    LET hm == hourly_mean(rows)
        p == hm[idxmax(hm)]
        o == hm[idxmin(hm)]
    IN  IF o.sum > 0 THEN p.sum * o.count > 2 * o.sum * p.count
        ELSE IF o.sum < 0 THEN p.sum * o.count < 2 * o.sum * p.count
        ELSE p.sum > 0

C15_ExactThresholds ==
    outcome.status = "returned" =>
        /\ "rising" \in Range(outcome.locals.extra_keys)
               <=> PercentChangeAbove5(forecast_df.rows)
        /\ "high_peak_ratio" \in Range(outcome.locals.extra_keys)
               <=> MeanRatioAbove2(forecast_df.rows)

\* the trend half alone, on tables of positive estimates
C15_TrendAbove5IsRising ==
    (outcome.status = "returned"
        /\ \A i \in 1 .. Len(forecast_df.rows) : forecast_df.rows[i].yhat >= 0) =>
        ("rising" \in Range(outcome.locals.extra_keys)
            <=> PercentChangeAbove5(forecast_df.rows))

(***************************************************************************)
(* C17: for every forecast table with the 'ds' and 'yhat' columns and at   *)
(* least one row, whatever its finite estimates (zero and negative ones    *)
(* included), generate_suggestions returns a suggestion list and raises no *)
(* fault, and the caller's table has no 'hour' column afterwards.          *)
(***************************************************************************)
C17_NoFaultOnFiniteTables ==
    (outcome.status # "idle"
        /\ {"ds", "yhat"} \subseteq forecast_df.columns
        /\ Len(forecast_df.rows) >= 1) =>
        /\ outcome.status = "returned"
        /\ outcome.fault = "none"
        /\ Len(outcome.suggestions) >= 1
        /\ "hour" \notin forecast_df.columns

(***************************************************************************)
(* C12: the lookup of a region's yearly total succeeds whenever the region *)
(* name and the name in the totals source differ only in diacritics,       *)
(* letter case or whitespace: _normalize maps both spellings to one key,   *)
(* for Turkish names too (dotless i, s-cedilla, g-breve match the plain    *)
(* ASCII spelling).                                                        *)
(***************************************************************************)
\* the plain lower-case ASCII letter a character stands for
PlainLetter(c) ==
    CASE c = "U+011F" -> "g" [] c = "U+011E" -> "g"
      [] c = "U+015F" -> "s" [] c = "U+015E" -> "s"
      [] c = "U+00FC" -> "u"
      [] c = "U+0130" -> "i" [] c = "U+0131" -> "i"
      [] OTHER -> Lower(c)

\* a name without its diacritics, letter case and whitespace
RECURSIVE PlainName(_)
PlainName(name) ==
    IF name = <<>> THEN <<>>
    ELSE IF Head(name) = " " THEN PlainName(Tail(name))
    ELSE <<PlainLetter(Head(name))>> \o PlainName(Tail(name))

\* the totals the memo holds are those of the file as it is now
MemoIsCurrent ==
    /\ CITY_TOTALS_KWH.loaded
    /\ totals_csv.exists
    /\ CITY_TOTALS_KWH.totals = load_city_totals(totals_csv)

C12_LookupIgnoresSpelling ==
    (Generated /\ MemoIsCurrent) =>
        \A i \in 1 .. Len(CITIES) : \A r \in 1 .. Len(totals_csv.rows) :
            LET row == totals_csv.rows[r]
            IN  (row.numeric /\ PlainName(row.city) = PlainName(CITIES[i])) =>
                    /\ normalize(Strip(row.city)) = normalize(CITIES[i])
                    /\ normalize(CITIES[i]) \in DOMAIN CITY_TOTALS_KWH.totals

\* the same of the _normalize of simulate_consumption.py, which reads the names unstripped
C12_SimulateIgnoresSpelling ==
    (Generated /\ MemoIsCurrent) =>
        \A i \in 1 .. Len(CITIES) : \A r \in 1 .. Len(totals_csv.rows) :
            LET row == totals_csv.rows[r]
            IN  (row.numeric /\ PlainName(row.city) = PlainName(CITIES[i])) =>
                    NormalizeKeepSpaces(row.city) = NormalizeKeepSpaces(CITIES[i])

\* the part of the claim that is true of data_utils.py: case, padding and the
\* decomposable diacritics (every letter but the dotless i) do not matter
C12_LookupIgnoresDecomposableSpelling ==
    (Generated /\ MemoIsCurrent) =>
        \A i \in 1 .. Len(CITIES) : \A r \in 1 .. Len(totals_csv.rows) :
            LET row == totals_csv.rows[r]
            IN  (row.numeric /\ PlainName(row.city) = PlainName(CITIES[i])
                     /\ "U+0131" \notin Range(row.city)) =>
                    /\ normalize(Strip(row.city)) = normalize(CITIES[i])
                    /\ normalize(CITIES[i]) \in DOMAIN CITY_TOTALS_KWH.totals

(***************************************************************************)
(*                     Claims about the cache file                         *)
(***************************************************************************)
LoadCalled == load_calls' # load_calls
TheCall == load_calls'[1]

\* the condition under which the cached data count as out of date, before the call
StaleBefore(force) ==
    \/ force
    \/ ~data_path.exists
    \/ (totals_csv.exists /\ totals_csv_mtime > data_path.mtime)

(***************************************************************************)
(* C13: load_consumption regenerates and saves the data when force is set, *)
(* when the cache file is absent, or when the totals CSV's modification    *)
(* time is later than the cache file's; in every other case it returns the *)
(* cached file's content without regenerating or rewriting the file.       *)
(* After any call the cache file exists.                                   *)
(***************************************************************************)
C13_RegenerateExactlyWhenStale ==
    [][LoadCalled =>
          /\ TheCall.regenerated <=> StaleBefore(TheCall.force)
          /\ StaleBefore(TheCall.force) =>
                 /\ generate_calls' # <<>>
                 /\ generate_calls'[Len(generate_calls')].frame = TheCall.data
                 /\ data_path'.content = to_csv(TheCall.data)
                 /\ data_path'.mtime = clock
          /\ ~StaleBefore(TheCall.force) =>
                 /\ data_path' = data_path
                 /\ UNCHANGED <<generate_calls, np_random, CITY_TOTALS_KWH>>
                 /\ TheCall.data = read_csv(data_path.content)
          /\ data_path'.exists]_vars

\* a call answered from the cache although the totals file exists: both files carry
\* the same stamp, and the cached table has two regions and two hours
C13_Witness ==
    /\ load_calls # <<>>
    /\ ~load_calls[1].regenerated
    /\ ~load_calls[1].force
    /\ totals_csv.exists
    /\ data_path.exists
    /\ totals_csv_mtime = data_path.mtime
    /\ Len(load_calls[1].data.columns) = 2
    /\ Len(load_calls[1].data.index) = 2

\* a second generation, without force and with the cache present: the totals file,
\* written after the first one, was the newer
C13_WitnessNewerTotals ==
    /\ load_calls # <<>>
    /\ load_calls[1].regenerated
    /\ ~load_calls[1].force
    /\ Len(generate_calls) = 2
    /\ totals_csv.exists
    /\ totals_csv_mtime = 2
    /\ data_path.mtime = 2

(***************************************************************************)
(* C16: within one process, after any sequence of totals-CSV updates and   *)
(* load_consumption calls, a call that regenerates because the totals CSV  *)
(* is newer than the cache returns data scaled with the totals the CSV     *)
(* holds at the time of that call, not with totals read by an earlier one. *)
(***************************************************************************)
C16_RegeneratedWithCurrentTotals ==
    [][(/\ LoadCalled
        /\ ~TheCall.force
        /\ data_path.exists
        /\ totals_csv.exists
        /\ totals_csv_mtime > data_path.mtime) =>
          /\ TheCall.regenerated
          /\ TheCall.data = generate_frame(CITIES, TheCall.hours,
                                           load_city_totals(totals_csv), np_random)]_vars

(***************************************************************************)
(*                     Claims about the forecaster                         *)
(***************************************************************************)
BothFitted == city_fit # <<>> /\ consumption_fit # <<>>

(***************************************************************************)
(* C14: before the forecaster strips the timezone from a timezone-aware    *)
(* series it converts the timestamps to one canonical timezone (UTC); both *)
(* entry points, forecast_city and forecast_consumption, hand the model    *)
(* the same naive timestamps for the same timezone-aware input.            *)
(***************************************************************************)
C14_SameNaiveTimestamps ==
    (BothFitted /\ fc_input.tz.aware) =>
        /\ city_fit[1].ds = consumption_fit[1].ds
        /\ city_fit[1].ds = fc_input.ds
        /\ consumption_fit[1].ds = fc_input.ds

\* what is true of both: the frame fitted is naive, and a naive or UTC input is unchanged
C14_NaiveFramesFitted ==
    BothFitted =>
        /\ ~city_fit[1].tz.aware /\ ~consumption_fit[1].tz.aware
        /\ consumption_fit[1].ds = fc_input.ds
        /\ fc_input.tz.offset = 0 => city_fit[1].ds = fc_input.ds

=============================================================================
